---- MODULE Spec2Model ----
(***************************************************************************)
(* SingleLinkedList<Type> (src/src/main.cpp) as a state machine over an    *)
(* explicit heap of nodes.  A node reference is an integer: 0 is nullptr,  *)
(* 1..MaxNodes are heap nodes made by `new Node', and -l is the address of *)
(* the sentinel head_ embedded in list object l.  The pure operators below *)
(* take and return a heap record s = [next_node, value, allocated, size_,  *)
(* news, deletes, bad_deletes, null_deref, signal]; the Call... actions     *)
(* apply them to the variables.                                            *)
(***************************************************************************)
EXTENDS Integers, Sequences, FiniteSets, TLC

\* ---- bounds of the model
MaxNodes == 3          \* heap capacity: `new Node' throws when all are in use
MaxVal == 2            \* element values are 1..MaxVal
NumLists == 2          \* list objects the client owns
MaxInit == 2           \* longest initializer_list a client passes

\* size_t arithmetic wraps; the width is narrowed from 64 bits to 16 so that
\* the wrapped value stays inside TLC's integers.
SizeTModulus == 65536

Nodes == 1 .. MaxNodes
Values == 1 .. MaxVal
Lists == 1 .. NumLists
\* the two automatic list objects of the source: `tmp' of both constructors
\* and `copy_value' of operator=
tmp == NumLists + 1
copy_value == NumLists + 2
AllLists == 1 .. (NumLists + 2)

nullptr == 0
\* &head_ of list object l
head_(l) == 0 - l
Sentinels == {head_(l) : l \in AllLists}
NodeRefs == Sentinels \cup Nodes

VARIABLES
    next_node,     \* Node::next_node of every sentinel and heap node
    value,         \* Node::value of every heap node
    allocated,     \* heap nodes between their `new' and their `delete'
    size_,         \* SingleLinkedList::size_ of every list object
    constructed,   \* client list objects whose lifetime has begun
    copied,        \* the pairs {c, l} of lists of which one was copied from
                   \* the other, with only PushFront, PopFront, InsertAfter,
                   \* EraseAfter and Clear called on either since
    pushed,        \* per list, in SpecPush: the values given to PushFront
                   \* since the list was default-constructed
    last           \* the last call: operation, list operands, returned
                   \* iterator (or bool of a comparison), whether it threw,
                   \* nodes allocated and freed, deletes of something that
                   \* is not an allocated node, whether it read through a
                   \* null pointer, whether a signal killed it

vars == <<next_node, value, allocated, size_, constructed, copied, pushed,
          last>>

\* the heap at the start of a call; news and deletes count the `new Node'
\* and `delete' expressions the call evaluates, bad_deletes those of them
\* applied to a pointer that is not an allocated node (a second delete of a
\* node, a delete of a sentinel); null_deref tells that the call read
\* through a null pointer and signal that it was killed
State == [next_node |-> next_node, value |-> value,
          allocated |-> allocated, size_ |-> size_,
          news |-> 0, deletes |-> 0, bad_deletes |-> 0,
          null_deref |-> FALSE, signal |-> FALSE]

Inc(n) == (n + 1) % SizeTModulus
Dec(n) == (n - 1) % SizeTModulus

\* ---- Node
\* new Node(val, next) placed at address n
NewNode(s, n, val, next) ==
    [s EXCEPT !.allocated = @ \cup {n},
              !.value = [@ EXCEPT ![n] = val],
              !.next_node = [@ EXCEPT ![n] = next],
              !.news = @ + 1]

\* delete n; the storage goes back to the allocator and its contents are
\* normalised (they can be read again only through a dangling pointer)
DeleteNode(s, n) ==
    [s EXCEPT !.allocated = @ \ {n},
              !.value = [@ EXCEPT ![n] = 0],
              !.next_node = [@ EXCEPT ![n] = nullptr],
              !.deletes = @ + 1,
              !.bad_deletes = IF n \in s.allocated THEN @ ELSE @ + 1]

\* ---- BasicIterator: an iterator is the node reference node_ it holds
\* operator++ : node_ = node_->next_node
Incr(s, it) == s.next_node[it]
\* operator* : node_->value
Deref(s, it) == s.value[it]

before_begin(l) == head_(l)
begin(s, l) == s.next_node[head_(l)]
end == nullptr

GetSize(s, l) == s.size_[l]
IsEmpty(s, l) == s.next_node[head_(l)] = nullptr

\* ---- mutators
\* The argument n is the outcome of `new Node': the address of the node, or
\* nullptr when the allocation throws std::bad_alloc.
\* PushFront linking the new node to nothing
PushFront_DropTail(s, l, v, n) ==
    IF n = nullptr
    THEN [st |-> s, threw |-> TRUE]
    ELSE LET s1 == NewNode(s, n, v, nullptr)
             s2 == [s1 EXCEPT !.next_node = [@ EXCEPT ![head_(l)] = n]]
         IN [st |-> [s2 EXCEPT !.size_ = [@ EXCEPT ![l] = Inc(@)]],
             threw |-> FALSE]

\* PushFront counting the element before the allocation is attempted
PushFront_CountFirst(s, l, v, n) ==
    LET s0 == [s EXCEPT !.size_ = [@ EXCEPT ![l] = Inc(@)]]
    IN IF n = nullptr
       THEN [st |-> s0, threw |-> TRUE]
       ELSE LET s1 == NewNode(s0, n, v, s0.next_node[head_(l)])
            IN [st |-> [s1 EXCEPT !.next_node = [@ EXCEPT ![head_(l)] = n]],
                threw |-> FALSE]

PushFront(s, l, v, n) ==
    IF n = nullptr
    THEN [st |-> s, threw |-> TRUE]
    ELSE LET s1 == NewNode(s, n, v, s.next_node[head_(l)])
             s2 == [s1 EXCEPT !.next_node = [@ EXCEPT ![head_(l)] = n]]
         IN [st |-> [s2 EXCEPT !.size_ = [@ EXCEPT ![l] = Inc(@)]],
             threw |-> FALSE]

\* InsertAfter relinking pos before reading its successor: the new node
\* becomes its own successor
InsertAfter_SelfLink(s, l, pos, v, n) ==
    IF n = nullptr
    THEN [st |-> s, threw |-> TRUE, ret |-> nullptr]
    ELSE LET s1 == NewNode(s, n, v, n)
             s2 == [s1 EXCEPT !.next_node = [@ EXCEPT ![pos] = n]]
             s3 == [s2 EXCEPT !.size_ = [@ EXCEPT ![l] = Inc(@)]]
         IN [st |-> s3, threw |-> FALSE, ret |-> s3.next_node[pos]]

\* InsertAfter without ++size_
InsertAfter_NoCount(s, l, pos, v, n) ==
    IF n = nullptr
    THEN [st |-> s, threw |-> TRUE, ret |-> nullptr]
    ELSE LET s1 == NewNode(s, n, v, s.next_node[pos])
             s2 == [s1 EXCEPT !.next_node = [@ EXCEPT ![pos] = n]]
         IN [st |-> s2, threw |-> FALSE, ret |-> s2.next_node[pos]]

\* InsertAfter returning Iterator{pos.node_}
InsertAfter_ReturnPos(s, l, pos, v, n) ==
    IF n = nullptr
    THEN [st |-> s, threw |-> TRUE, ret |-> nullptr]
    ELSE LET s1 == NewNode(s, n, v, s.next_node[pos])
             s2 == [s1 EXCEPT !.next_node = [@ EXCEPT ![pos] = n]]
             s3 == [s2 EXCEPT !.size_ = [@ EXCEPT ![l] = Inc(@)]]
         IN [st |-> s3, threw |-> FALSE, ret |-> pos]

InsertAfter(s, l, pos, v, n) ==
    IF n = nullptr
    THEN [st |-> s, threw |-> TRUE, ret |-> nullptr]
    ELSE LET s1 == NewNode(s, n, v, s.next_node[pos])
             s2 == [s1 EXCEPT !.next_node = [@ EXCEPT ![pos] = n]]
             s3 == [s2 EXCEPT !.size_ = [@ EXCEPT ![l] = Inc(@)]]
         IN [st |-> s3, threw |-> FALSE, ret |-> s3.next_node[pos]]

\* EraseAfter ending the chain at pos instead of linking the rest to it
EraseAfter_DropTail(s, l, pos) ==
    LET s3 == IF ~IsEmpty(s, l)
              THEN LET next == s.next_node[pos]
                       s1 == [s EXCEPT !.next_node =
                                 [@ EXCEPT ![pos] = nullptr]]
                       s2 == DeleteNode(s1, next)
                   IN [s2 EXCEPT !.size_ = [@ EXCEPT ![l] = Dec(@)]]
              ELSE s
    IN [st |-> s3, ret |-> s3.next_node[pos]]

\* EraseAfter deleting the element at pos instead of its successor
EraseAfter_DeletePos(s, l, pos) ==
    LET s3 == IF ~IsEmpty(s, l)
              THEN LET next == s.next_node[pos]
                       s1 == [s EXCEPT !.next_node =
                                 [@ EXCEPT ![pos] = s.next_node[next]]]
                       s2 == DeleteNode(s1, IF pos \in Nodes THEN pos ELSE next)
                   IN [s2 EXCEPT !.size_ = [@ EXCEPT ![l] = Dec(@)]]
              ELSE s
    IN [st |-> s3, ret |-> s3.next_node[pos]]

EraseAfter(s, l, pos) ==
    LET s3 == IF ~IsEmpty(s, l)
              THEN LET next == s.next_node[pos]
                       s1 == [s EXCEPT !.next_node =
                                 [@ EXCEPT ![pos] = s.next_node[next]]]
                       s2 == DeleteNode(s1, next)
                   IN [s2 EXCEPT !.size_ = [@ EXCEPT ![l] = Dec(@)]]
              ELSE s
    IN [st |-> s3, ret |-> s3.next_node[pos]]

\* EraseAfter(pos) on a non-empty list when pos is its last element.  No
\* assert stands before the body: next is nullptr and the second line reads
\* nullptr->next_node, which is undefined behaviour.  Either the read traps
\* and a signal kills the call (killed), or it yields some pointer g and the
\* call goes on: pos is linked to g, `delete next' of a null pointer does
\* nothing, size_ is decremented and Iterator{g} is returned.
EraseAfterNoSuccessor(s, l, pos, killed, g) ==
    IF killed
    THEN [st |-> [s EXCEPT !.null_deref = TRUE, !.signal = TRUE],
          ret |-> nullptr]
    ELSE LET s1 == [s EXCEPT !.null_deref = TRUE,
                             !.next_node = [@ EXCEPT ![pos] = g]]
             s2 == [s1 EXCEPT !.size_ = [@ EXCEPT ![l] = Dec(@)]]
         IN [st |-> s2, ret |-> s2.next_node[pos]]

\* PopFront without --size_
PopFront_NoDecrement(s, l) ==
    IF ~IsEmpty(s, l)
    THEN LET current == s.next_node[head_(l)]
             s1 == [s EXCEPT !.next_node =
                       [@ EXCEPT ![head_(l)] = s.next_node[current]]]
         IN DeleteNode(s1, current)
    ELSE s

\* PopFront without `delete current'
PopFront_KeepNode(s, l) ==
    IF ~IsEmpty(s, l)
    THEN LET current == s.next_node[head_(l)]
             s1 == [s EXCEPT !.next_node =
                       [@ EXCEPT ![head_(l)] = s.next_node[current]]]
         IN [s1 EXCEPT !.size_ = [@ EXCEPT ![l] = Dec(@)]]
    ELSE s

\* PopFront with --size_ outside the IsEmpty test
PopFront_DecrementAlways(s, l) ==
    LET s3 == IF ~IsEmpty(s, l)
              THEN LET current == s.next_node[head_(l)]
                       s1 == [s EXCEPT !.next_node =
                                 [@ EXCEPT ![head_(l)] = s.next_node[current]]]
                   IN DeleteNode(s1, current)
              ELSE s
    IN [s3 EXCEPT !.size_ = [@ EXCEPT ![l] = Dec(@)]]

PopFront(s, l) ==
    IF ~IsEmpty(s, l)
    THEN LET current == s.next_node[head_(l)]
             s1 == [s EXCEPT !.next_node =
                       [@ EXCEPT ![head_(l)] = s.next_node[current]]]
             s2 == DeleteNode(s1, current)
         IN [s2 EXCEPT !.size_ = [@ EXCEPT ![l] = Dec(@)]]
    ELSE s

RECURSIVE ClearLoop(_, _, _)
ClearLoop(s, l, current) ==
    IF IsEmpty(s, l)
    THEN s
    ELSE LET s1 == [s EXCEPT !.next_node =
                       [@ EXCEPT ![head_(l)] =
                           s.next_node[s.next_node[head_(l)]]]]
             s2 == DeleteNode(s1, current)
         IN ClearLoop(s2, l, s2.next_node[head_(l)])

\* Clear without size_ = 0
Clear_KeepSize(s, l) == ClearLoop(s, l, s.next_node[head_(l)])

Clear(s, l) ==
    LET s1 == ClearLoop(s, l, s.next_node[head_(l)])
    IN [s1 EXCEPT !.size_ = [@ EXCEPT ![l] = 0]]

\* swap written without a temporary (a = b; b = a): both operands end with
\* other's head link and size
swap_NoTemporary(s, l, other) ==
    [s EXCEPT !.next_node = [@ EXCEPT ![head_(l)] = s.next_node[head_(other)]],
              !.size_ = [@ EXCEPT ![l] = s.size_[other]]]

swap(s, l, other) ==
    [s EXCEPT !.next_node = [@ EXCEPT ![head_(l)] = s.next_node[head_(other)],
                                      ![head_(other)] = s.next_node[head_(l)]],
              !.size_ = [@ EXCEPT ![l] = s.size_[other],
                                  ![other] = s.size_[l]]]

\* the free function swap(lhs, rhs)
FreeSwap(s, lhs, rhs) == swap(s, lhs, rhs)

\* ~SingleLinkedList
Destructor(s, l) == Clear(s, l)

\* ---- constructors and assignment
\* `allocs' is the sequence of addresses the successive `new Node' calls of
\* one operation obtain; the allocation after the last of them throws.

\* the loop running from begin to end instead: for (it = begin; it != end;
\* ++it) l.PushFront(*it)
RECURSIVE PushFrontReversed_Forward(_, _, _, _)
PushFrontReversed_Forward(s, l, vals, allocs) ==
    IF vals = <<>>
    THEN [st |-> s, threw |-> FALSE]
    ELSE LET r == PushFront(s, l, vals[1],
                            IF allocs = <<>> THEN nullptr ELSE Head(allocs))
         IN IF r.threw
            THEN r
            ELSE PushFrontReversed_Forward(r.st, l, Tail(vals), Tail(allocs))

\* for (it = rbegin; it != rend; ++it) l.PushFront(*it)
RECURSIVE PushFrontReversed(_, _, _, _)
PushFrontReversed(s, l, vals, allocs) ==
    IF vals = <<>>
    THEN [st |-> s, threw |-> FALSE]
    ELSE LET r == PushFront(s, l, vals[Len(vals)],
                            IF allocs = <<>> THEN nullptr ELSE Head(allocs))
         IN IF r.threw
            THEN r
            ELSE PushFrontReversed(r.st, l, SubSeq(vals, 1, Len(vals) - 1),
                                   Tail(allocs))

\* for (it = other.begin(); it != other.end(); ++it) tmp_v.push_back(*it)
RECURSIVE CollectValues(_, _)
CollectValues(s, it) ==
    IF it = end
    THEN <<>>
    ELSE <<Deref(s, it)>> \o CollectValues(s, Incr(s, it))

\* the constructor building in a list that no destructor runs for when
\* PushFront throws
InitListConstructor_NoUnwind(s, l, values, allocs) ==
    IF IsEmpty(s, l) /\ GetSize(s, l) = 0
    THEN LET r == PushFrontReversed(s, tmp, values, allocs)
         IN IF r.threw
            THEN [st |-> r.st, threw |-> TRUE]
            ELSE [st |-> Destructor(swap(r.st, l, tmp), tmp), threw |-> FALSE]
    ELSE [st |-> s, threw |-> FALSE]

\* SingleLinkedList(std::initializer_list<Type> values), constructing l.
\* An exception leaves the scope of tmp, whose destructor runs.
InitListConstructor(s, l, values, allocs) ==
    IF IsEmpty(s, l) /\ GetSize(s, l) = 0
    THEN LET r == PushFrontReversed(s, tmp, values, allocs)
         IN IF r.threw
            THEN [st |-> Destructor(r.st, tmp), threw |-> TRUE]
            ELSE [st |-> Destructor(swap(r.st, l, tmp), tmp), threw |-> FALSE]
    ELSE [st |-> s, threw |-> FALSE]

\* a copy constructor taking over other's head link and size
CopyConstructor_Shallow(s, l, other, allocs) ==
    [st |-> [s EXCEPT !.next_node = [@ EXCEPT ![head_(l)] =
                                        s.next_node[head_(other)]],
                      !.size_ = [@ EXCEPT ![l] = s.size_[other]]],
     threw |-> FALSE]

\* SingleLinkedList(const SingleLinkedList& other), constructing l
CopyConstructor(s, l, other, allocs) ==
    IF IsEmpty(s, l) /\ GetSize(s, l) = 0
    THEN LET tmp_v == CollectValues(s, begin(s, other))
             r == PushFrontReversed(s, tmp, tmp_v, allocs)
         IN IF r.threw
            THEN [st |-> Destructor(r.st, tmp), threw |-> TRUE]
            ELSE [st |-> Destructor(swap(r.st, l, tmp), tmp), threw |-> FALSE]
    ELSE [st |-> s, threw |-> FALSE]

\* an assignment that empties the target and then copies into it
CopyAssignment_ClearFirst(s, l, rhs, allocs) ==
    IF l # rhs
    THEN LET tmp_v == CollectValues(s, begin(s, rhs))
         IN PushFrontReversed(Clear(s, l), l, tmp_v, allocs)
    ELSE [st |-> s, threw |-> FALSE]

\* operator= without the this != &rhs test
CopyAssignment_NoSelfCheck(s, l, rhs, allocs) ==
    LET r == CopyConstructor(s, copy_value, rhs, allocs)
    IN IF r.threw
       THEN r
       ELSE [st |-> Destructor(swap(r.st, l, copy_value), copy_value),
             threw |-> FALSE]

\* operator=(const SingleLinkedList& rhs) on l; this != &rhs compares the
\* addresses of the two list objects
CopyAssignment(s, l, rhs, allocs) ==
    IF l # rhs
    THEN LET r == CopyConstructor(s, copy_value, rhs, allocs)
         IN IF r.threw
            THEN r
            ELSE [st |-> Destructor(swap(r.st, l, copy_value), copy_value),
                  threw |-> FALSE]
    ELSE [st |-> s, threw |-> FALSE]

\* ---- comparison operators (free functions)
\* std::equal(first1, last1, first2)
RECURSIVE StdEqual(_, _, _, _)
StdEqual(s, first1, last1, first2) ==
    IF first1 = last1
    THEN TRUE
    ELSE IF Deref(s, first1) # Deref(s, first2)
         THEN FALSE
         ELSE StdEqual(s, Incr(s, first1), last1, Incr(s, first2))

\* operator== trusting the sizes alone
OperatorEqual_SizeOnly(s, lhs, rhs) == GetSize(s, lhs) = GetSize(s, rhs)

\* operator==(lhs, rhs)
OperatorEqual(s, lhs, rhs) ==
    IF GetSize(s, lhs) # GetSize(s, rhs)
    THEN FALSE
    ELSE StdEqual(s, begin(s, lhs), end, begin(s, rhs))

\* operator!=(lhs, rhs)
OperatorNotEqual(s, lhs, rhs) == ~OperatorEqual(s, lhs, rhs)

\* std::lexicographical_compare that does not look at what is left of the
\* second range when the first is exhausted
RECURSIVE LexicographicalCompare_PrefixNotLess(_, _, _, _, _)
LexicographicalCompare_PrefixNotLess(s, first1, last1, first2, last2) ==
    IF first1 = last1 \/ first2 = last2
    THEN FALSE
    ELSE IF Deref(s, first1) < Deref(s, first2)
         THEN TRUE
         ELSE IF Deref(s, first2) < Deref(s, first1)
              THEN FALSE
              ELSE LexicographicalCompare_PrefixNotLess(
                       s, Incr(s, first1), last1, Incr(s, first2), last2)

\* std::lexicographical_compare(first1, last1, first2, last2)
RECURSIVE LexicographicalCompare(_, _, _, _, _)
LexicographicalCompare(s, first1, last1, first2, last2) ==
    IF first1 = last1 \/ first2 = last2
    THEN first1 = last1 /\ first2 # last2
    ELSE IF Deref(s, first1) < Deref(s, first2)
         THEN TRUE
         ELSE IF Deref(s, first2) < Deref(s, first1)
              THEN FALSE
              ELSE LexicographicalCompare(
                       s, Incr(s, first1), last1, Incr(s, first2), last2)

\* operator<(lhs, rhs)
OperatorLess(s, lhs, rhs) ==
    LexicographicalCompare(s, begin(s, lhs), end, begin(s, rhs), end)

\* operator<=(lhs, rhs)
OperatorLessEqual(s, lhs, rhs) == ~OperatorLess(s, rhs, lhs)

\* operator>(lhs, rhs)
OperatorGreater(s, lhs, rhs) == OperatorLess(s, rhs, lhs)

\* operator>=(lhs, rhs)
OperatorGreaterEqual(s, lhs, rhs) == ~OperatorLess(s, lhs, rhs)

\* ---- what a client can observe and pass
\* nodes linked after the sentinel of l (stops at a node met before)
RECURSIVE ReachFrom(_, _, _)
ReachFrom(s, it, seen) ==
    IF it = nullptr \/ it \in seen
    THEN seen
    ELSE ReachFrom(s, s.next_node[it], seen \cup {it})

Reachable(s, l) == ReachFrom(s, begin(s, l), {})

\* positions InsertAfter and EraseAfter accept for l: before_begin() or an
\* iterator to one of its elements
Positions(s, l) == {before_begin(l)} \cup Reachable(s, l)

\* outcomes of one `new Node': any unused address, or nullptr for
\* std::bad_alloc (always possible, and the only outcome on a full heap)
AllocOutcomes(s) == (Nodes \ s.allocated) \cup {nullptr}

\* outcomes of at most n successive `new Node' calls of one operation: the
\* distinct addresses of those that succeed before one throws.  An exception
\* of tmp_v.push_back is a throw before the first `new Node'.
RECURSIVE AllocSeqs(_, _)
AllocSeqs(free, n) ==
    IF n = 0
    THEN {<<>>}
    ELSE {<<>>} \cup UNION {{<<m>> \o q : q \in AllocSeqs(free \ {m}, n - 1)} :
                               m \in free}

AllocPlans(s, n) == AllocSeqs(Nodes \ s.allocated, n)

\* the k lowest addresses of `free', ascending
RECURSIVE LowestFree(_, _)
LowestFree(free, k) ==
    IF k = 0 \/ free = {}
    THEN <<>>
    ELSE LET n == CHOOSE m \in free : \A o \in free : m <= o
         IN <<n>> \o LowestFree(free \ {n}, k - 1)

SeqsUpTo(S, n) == UNION {[1 .. k -> S] : k \in 0 .. n}

NotTracked == [only |-> FALSE, vals |-> <<>>]

\* the record of a call that ended with the heap s
Call(op, l, other, ret, threw, s) ==
    [op |-> op, this |-> l, other |-> other, ret |-> ret, threw |-> threw,
     news |-> s.news, deletes |-> s.deletes, bad_deletes |-> s.bad_deletes,
     null_deref |-> s.null_deref, signal |-> s.signal]

\* the copy pairs that survive a call, other than the five mutators, on l
Without(l) == {c \in copied : l \notin c}

\* the variables take the heap record s
Becomes(s) ==
    /\ next_node' = s.next_node
    /\ value' = s.value
    /\ allocated' = s.allocated
    /\ size_' = s.size_

\* no list object exists yet and no node is allocated
EmptyHeap ==
    [next_node |-> [r \in NodeRefs |-> nullptr],
     value |-> [n \in Nodes |-> 0],
     allocated |-> {},
     size_ |-> [l \in AllLists |-> 0],
     news |-> 0, deletes |-> 0, bad_deletes |-> 0,
     null_deref |-> FALSE, signal |-> FALSE]

NoCall == Call("none", 0, 0, nullptr, FALSE, EmptyHeap)

\* the program before the client constructs its first list
Init ==
    /\ next_node = EmptyHeap.next_node
    /\ value = EmptyHeap.value
    /\ allocated = EmptyHeap.allocated
    /\ size_ = EmptyHeap.size_
    /\ constructed = {}
    /\ copied = {}
    /\ pushed = [l \in Lists |-> NotTracked]
    /\ last = NoCall

\* ---- the calls a client makes, with their preconditions met
CallDefaultConstructor(l) ==
    /\ l \notin constructed
    /\ constructed' = constructed \cup {l}
    /\ last' = Call("default constructor", l, 0, nullptr, FALSE, State)
    /\ UNCHANGED <<next_node, value, allocated, size_, copied, pushed>>

CallInitListConstructor(l, values, allocs) ==
    /\ l \notin constructed
    /\ LET r == InitListConstructor(State, l, values, allocs)
       IN /\ Becomes(r.st)
          /\ constructed' = IF r.threw THEN constructed ELSE constructed \cup {l}
          /\ last' = Call("initializer_list constructor", l, 0, nullptr, r.threw, r.st)
    /\ UNCHANGED <<copied, pushed>>

CallCopyConstructor(l, other, allocs) ==
    /\ l \notin constructed
    /\ other \in constructed
    /\ LET r == CopyConstructor(State, l, other, allocs)
       IN /\ Becomes(r.st)
          /\ constructed' = IF r.threw THEN constructed ELSE constructed \cup {l}
          /\ copied' = IF r.threw THEN copied ELSE copied \cup {{l, other}}
          /\ last' = Call("copy constructor", l, other, nullptr, r.threw, r.st)
    /\ UNCHANGED pushed

CallCopyAssignment(l, rhs, allocs) ==
    /\ l \in constructed
    /\ rhs \in constructed
    /\ LET r == CopyAssignment(State, l, rhs, allocs)
       IN /\ Becomes(r.st)
          /\ copied' = IF r.threw \/ l = rhs
                       THEN Without(l)
                       ELSE Without(l) \cup {{l, rhs}}
          /\ last' = Call("operator=", l, rhs, nullptr, r.threw, r.st)
    /\ UNCHANGED <<constructed, pushed>>

CallPushFront(l, v, n) ==
    /\ l \in constructed
    /\ LET r == PushFront(State, l, v, n)
       IN /\ Becomes(r.st)
          /\ last' = Call("PushFront", l, 0, nullptr, r.threw, r.st)
    /\ UNCHANGED <<constructed, copied, pushed>>

CallPopFront(l) ==
    /\ l \in constructed
    /\ LET s == PopFront(State, l)
       IN /\ Becomes(s)
          /\ last' = Call("PopFront", l, 0, nullptr, FALSE, s)
    /\ UNCHANGED <<constructed, copied, pushed>>

CallInsertAfter(l, pos, v, n) ==
    /\ l \in constructed
    /\ pos \in Positions(State, l)
    /\ LET r == InsertAfter(State, l, pos, v, n)
       IN /\ Becomes(r.st)
          /\ last' = Call("InsertAfter", l, 0, r.ret, r.threw, r.st)
    /\ UNCHANGED <<constructed, copied, pushed>>

\* pos has a successor, or the list is empty (the source's no-op)
CallEraseAfter(l, pos) ==
    /\ l \in constructed
    /\ pos \in Positions(State, l)
    /\ next_node[pos] # nullptr \/ IsEmpty(State, l)
    /\ LET r == EraseAfter(State, l, pos)
       IN /\ Becomes(r.st)
          /\ last' = Call("EraseAfter", l, 0, r.ret, FALSE, r.st)
    /\ UNCHANGED <<constructed, copied, pushed>>

CallClear(l) ==
    /\ l \in constructed
    /\ LET s == Clear(State, l)
       IN /\ Becomes(s)
          /\ last' = Call("Clear", l, 0, nullptr, FALSE, s)
    /\ UNCHANGED <<constructed, copied, pushed>>

CallSwap(l, other) ==
    /\ l \in constructed
    /\ other \in constructed
    /\ LET s == swap(State, l, other)
       IN /\ Becomes(s)
          /\ last' = Call("swap", l, other, nullptr, FALSE, s)
    /\ copied' = {c \in copied : l \notin c /\ other \notin c}
    /\ UNCHANGED <<constructed, pushed>>

CallFreeSwap(lhs, rhs) ==
    /\ lhs \in constructed
    /\ rhs \in constructed
    /\ LET s == FreeSwap(State, lhs, rhs)
       IN /\ Becomes(s)
          /\ last' = Call("::swap", lhs, rhs, nullptr, FALSE, s)
    /\ copied' = {c \in copied : lhs \notin c /\ rhs \notin c}
    /\ UNCHANGED <<constructed, pushed>>

CallDestructor(l) ==
    /\ l \in constructed
    /\ LET s == Destructor(State, l)
       IN /\ Becomes(s)
          /\ last' = Call("~SingleLinkedList", l, 0, nullptr, FALSE, s)
    /\ constructed' = constructed \ {l}
    /\ copied' = Without(l)
    /\ UNCHANGED pushed

\* a comparison reads both lists and changes nothing
Compare(op, lhs, rhs, result) ==
    /\ lhs \in constructed
    /\ rhs \in constructed
    /\ last' = Call(op, lhs, rhs, result, FALSE, State)
    /\ UNCHANGED <<next_node, value, allocated, size_, constructed, copied,
                   pushed>>

CallOperatorEqual(lhs, rhs) ==
    Compare("operator==", lhs, rhs, OperatorEqual(State, lhs, rhs))

CallOperatorNotEqual(lhs, rhs) ==
    Compare("operator!=", lhs, rhs, OperatorNotEqual(State, lhs, rhs))

CallOperatorLess(lhs, rhs) ==
    Compare("operator<", lhs, rhs, OperatorLess(State, lhs, rhs))

CallOperatorLessEqual(lhs, rhs) ==
    Compare("operator<=", lhs, rhs, OperatorLessEqual(State, lhs, rhs))

CallOperatorGreater(lhs, rhs) ==
    Compare("operator>", lhs, rhs, OperatorGreater(State, lhs, rhs))

CallOperatorGreaterEqual(lhs, rhs) ==
    Compare("operator>=", lhs, rhs, OperatorGreaterEqual(State, lhs, rhs))

Next ==
    \/ \E l \in Lists : CallDefaultConstructor(l)
    \/ \E l \in Lists, values \in SeqsUpTo(Values, MaxInit) :
          \E allocs \in AllocPlans(State, Len(values)) :
             CallInitListConstructor(l, values, allocs)
    \/ \E l, other \in Lists :
          \E allocs \in AllocPlans(State, Cardinality(Reachable(State, other))) :
             CallCopyConstructor(l, other, allocs)
    \/ \E l, rhs \in Lists :
          \E allocs \in AllocPlans(State, Cardinality(Reachable(State, rhs))) :
             CallCopyAssignment(l, rhs, allocs)
    \/ \E l \in Lists, v \in Values : \E n \in AllocOutcomes(State) :
          CallPushFront(l, v, n)
    \/ \E l \in Lists : CallPopFront(l)
    \/ \E l \in Lists, pos \in NodeRefs, v \in Values :
          \E n \in AllocOutcomes(State) : CallInsertAfter(l, pos, v, n)
    \/ \E l \in Lists, pos \in NodeRefs : CallEraseAfter(l, pos)
    \/ \E l \in Lists : CallClear(l)
    \/ \E l, other \in Lists : CallSwap(l, other)
    \/ \E lhs, rhs \in Lists : CallFreeSwap(lhs, rhs)
    \/ \E l \in Lists : CallDestructor(l)
    \/ \E lhs, rhs \in Lists : CallOperatorEqual(lhs, rhs)
    \/ \E lhs, rhs \in Lists : CallOperatorNotEqual(lhs, rhs)
    \/ \E lhs, rhs \in Lists : CallOperatorLess(lhs, rhs)
    \/ \E lhs, rhs \in Lists : CallOperatorLessEqual(lhs, rhs)
    \/ \E lhs, rhs \in Lists : CallOperatorGreater(lhs, rhs)
    \/ \E lhs, rhs \in Lists : CallOperatorGreaterEqual(lhs, rhs)

Spec == Init /\ [][Next]_vars

\* ---- one call on lists a client has built
\* The programs after the client constructed some of the lists 1 .. l, each
\* from an initializer list that fits the heap: the heap and the lists built.
\* The nodes get the lowest unused addresses; the list never compares or
\* orders addresses, so any other layout is this one with the nodes renamed.
RECURSIVE BuiltLists(_)
BuiltLists(l) ==
    IF l = 0
    THEN {[st |-> EmptyHeap, cs |-> {}]}
    ELSE LET before == BuiltLists(l - 1)
         IN before \cup UNION {
               {[st |-> InitListConstructor(
                           b.st, l, values,
                           LowestFree(Nodes \ b.st.allocated, Len(values))).st,
                 cs |-> b.cs \cup {l}] :
                   values \in SeqsUpTo(Values,
                                       MaxNodes - Cardinality(b.st.allocated))} :
               b \in before}

InitStep ==
    \E b \in BuiltLists(NumLists) :
        /\ next_node = b.st.next_node
        /\ value = b.st.value
        /\ allocated = b.st.allocated
        /\ size_ = b.st.size_
        /\ constructed = b.cs
        /\ copied = {}
        /\ pushed = [l \in Lists |-> NotTracked]
        /\ last = NoCall

\* the client makes one call and stops
NextStep ==
    /\ last.op = "none"
    /\ Next

SpecStep == InitStep /\ [][NextStep]_vars

\* ---- one EraseAfter call at any element of a built list, the last one
\* included
CallEraseAfterNoSuccessor(l, pos, killed, g) ==
    /\ l \in constructed
    /\ pos \in Reachable(State, l)
    /\ next_node[pos] = nullptr
    /\ LET r == EraseAfterNoSuccessor(State, l, pos, killed, g)
       IN /\ Becomes(r.st)
          /\ last' = Call("EraseAfter", l, 0, r.ret, FALSE, r.st)
    /\ UNCHANGED <<constructed, copied, pushed>>

NextErase ==
    /\ last.op = "none"
    /\ \/ \E l \in Lists, pos \in NodeRefs : CallEraseAfter(l, pos)
       \/ \E l \in Lists, pos \in Nodes, killed \in BOOLEAN :
             \E g \in NodeRefs \cup {nullptr} :
                CallEraseAfterNoSuccessor(l, pos, killed, g)

SpecErase == InitStep /\ [][NextErase]_vars

\* ---- a client that calls PushFront on an empty list and, when it did not
\* throw, PopFront on the same list
NextPushPop ==
    \/ /\ last.op = "none"
       /\ \E l \in Lists, v \in Values : \E n \in AllocOutcomes(State) :
             /\ IsEmpty(State, l)
             /\ CallPushFront(l, v, n)
    \/ /\ last.op = "PushFront"
       /\ ~last.threw
       /\ CallPopFront(last.this)

SpecPushPop == InitStep /\ [][NextPushPop]_vars

\* ---- a client that default-constructs lists and only calls PushFront on
\* them, every allocation succeeding; `pushed' records the values passed
TrackedDefaultConstructor(l) ==
    /\ l \notin constructed
    /\ constructed' = constructed \cup {l}
    /\ pushed' = [pushed EXCEPT ![l] = [only |-> TRUE, vals |-> <<>>]]
    /\ last' = Call("default constructor", l, 0, nullptr, FALSE, State)
    /\ UNCHANGED <<next_node, value, allocated, size_, copied>>

TrackedPushFront(l, v, n) ==
    /\ l \in constructed
    /\ n # nullptr
    /\ LET r == PushFront(State, l, v, n)
       IN /\ Becomes(r.st)
          /\ last' = Call("PushFront", l, 0, nullptr, r.threw, r.st)
    /\ pushed' = [pushed EXCEPT ![l] =
                     [only |-> TRUE, vals |-> Append(@.vals, v)]]
    /\ UNCHANGED <<constructed, copied>>

NextPush ==
    \/ \E l \in Lists : TrackedDefaultConstructor(l)
    \/ \E l \in Lists, v \in Values : \E n \in AllocOutcomes(State) :
          TrackedPushFront(l, v, n)

SpecPush == Init /\ [][NextPush]_vars

\* ---- observations used to state the properties
\* the nodes met from iterator `it' by ++ until end(), at most `fuel' of them
RECURSIVE NodeSeq(_, _, _)
NodeSeq(s, it, fuel) ==
    IF it = end \/ fuel = 0
    THEN <<>>
    ELSE <<it>> \o NodeSeq(s, Incr(s, it), fuel - 1)

\* the nodes of l in iteration order, and the values *it yields on them
Chain(s, l) == NodeSeq(s, begin(s, l), MaxNodes + 1)
Elems(s, l) == [i \in 1 .. Len(Chain(s, l)) |-> Deref(s, Chain(s, l)[i])]

\* the number of ++ that take `it' to end(); more than `fuel' if none does
RECURSIVE StepsToEnd(_, _, _)
StepsToEnd(s, it, fuel) ==
    IF it = end
    THEN 0
    ELSE IF fuel = 0 THEN 1 ELSE 1 + StepsToEnd(s, Incr(s, it), fuel - 1)

\* how many elements of l precede the successor of position pos
IndexOf(s, l, pos) ==
    IF pos = before_begin(l)
    THEN 0
    ELSE CHOOSE i \in 1 .. Len(Chain(s, l)) : Chain(s, l)[i] = pos

Reverse(q) == [i \in 1 .. Len(q) |-> q[Len(q) + 1 - i]]

\* q with x put after its first i elements; q without its i-th element
InsertAt(q, i, x) == SubSeq(q, 1, i) \o <<x>> \o SubSeq(q, i + 1, Len(q))
RemoveAt(q, i) == SubSeq(q, 1, i - 1) \o SubSeq(q, i + 1, Len(q))

Mutators == {"PushFront", "PopFront", "InsertAfter", "EraseAfter", "Clear"}

\* ---- C1: in every reachable state the recorded size of each list equals
\* the number of nodes reachable from its sentinel's next link
SizeEqualsReachableNodes ==
    \A l \in constructed :
        GetSize(State, l) = Cardinality(Reachable(State, l))

SizeEqualsReachableNodesWitness ==
    /\ last.op = "operator="
    /\ ~last.threw
    /\ last.deletes >= 1
    /\ GetSize(State, last.this) >= 1

\* ---- C2: the chain of every list is acyclic: ++ from begin() reaches
\* end() after exactly GetSize() steps and meets no node twice
ChainReachesEndInSizeSteps ==
    \A l \in constructed :
        /\ StepsToEnd(State, begin(State, l), MaxNodes + 1) = GetSize(State, l)
        /\ \A i, j \in 1 .. Len(Chain(State, l)) :
              Chain(State, l)[i] = Chain(State, l)[j] => i = j

ChainReachesEndInSizeStepsWitness ==
    /\ last.op = "InsertAfter"
    /\ ~last.threw
    /\ GetSize(State, last.this) = 3
    /\ StepsToEnd(State, begin(State, last.this), MaxNodes + 1) = 3

\* ---- C3: after PushFront(v1), ..., PushFront(vn) on a default-constructed
\* list, all allocations succeeding, iteration yields vn, ..., v1 and the
\* size is n (n >= 0)
PushFrontOrder ==
    \A l \in constructed :
        /\ Elems(State, l) = Reverse(pushed[l].vals)
        /\ GetSize(State, l) = Len(pushed[l].vals)

PushFrontOrderWitness ==
    \E l \in constructed :
        /\ Len(pushed[l].vals) = 3
        /\ pushed[l].vals[1] # pushed[l].vals[3]
        /\ Elems(State, l)[1] = pushed[l].vals[3]

\* ---- C4: IsEmpty() holds iff GetSize() is 0, and after Clear() the list
\* is empty with size 0
EmptyIffSizeZero ==
    /\ \A l \in constructed : IsEmpty(State, l) <=> GetSize(State, l) = 0
    /\ last.op = "Clear" =>
          IsEmpty(State, last.this) /\ GetSize(State, last.this) = 0

EmptyIffSizeZeroWitness ==
    /\ last.op = "Clear"
    /\ last.deletes >= 2
    /\ IsEmpty(State, last.this)

\* ---- C5: InsertAfter(pos, v), the allocation succeeding, puts v right
\* after pos (first when pos is before_begin()), keeps the other elements
\* and their order, adds exactly 1 to the size and returns an iterator to
\* the new node
InsertAfterPlacesValue ==
    [][last'.op = "InsertAfter" =>
        LET l == last'.this
        IN \A pos \in Positions(State, l), v \in Values :
               \A n \in AllocOutcomes(State) \ {nullptr} :
                   CallInsertAfter(l, pos, v, n) =>
                       LET i == IndexOf(State, l, pos)
                       IN /\ ~last'.threw
                          /\ Chain(State', l) = InsertAt(Chain(State, l), i, n)
                          /\ Elems(State', l) = InsertAt(Elems(State, l), i, v)
                          /\ Incr(State', pos) = n
                          /\ GetSize(State', l) = GetSize(State, l) + 1
                          /\ last'.ret = n
                          /\ Deref(State', last'.ret) = v]_vars

InsertAfterPlacesValueWitness ==
    /\ last.op = "InsertAfter"
    /\ ~last.threw
    /\ begin(State, last.this) # last.ret
    /\ Incr(State, last.ret) # end

\* ---- C6: EraseAfter(pos), pos having a successor, removes exactly that
\* successor, keeps the other elements and their order, subtracts exactly 1
\* from the size and returns an iterator to the element that followed the
\* removed one, or end()
EraseAfterRemovesSuccessor ==
    [][last'.op = "EraseAfter" =>
        LET l == last'.this
        IN \A pos \in Positions(State, l) :
               (CallEraseAfter(l, pos) /\ Incr(State, pos) # end) =>
                   LET i == IndexOf(State, l, pos)
                       old == Chain(State, l)
                   IN /\ Chain(State', l) = RemoveAt(old, i + 1)
                      /\ Elems(State', l) = RemoveAt(Elems(State, l), i + 1)
                      /\ old[i + 1] \notin allocated'
                      /\ last'.deletes = 1
                      /\ GetSize(State', l) = GetSize(State, l) - 1
                      /\ last'.ret =
                            IF i + 2 <= Len(old) THEN old[i + 2] ELSE end
                      /\ last'.ret = Incr(State', pos)]_vars

EraseAfterRemovesSuccessorWitness ==
    /\ last.op = "EraseAfter"
    /\ last.deletes = 1
    /\ last.ret # end
    /\ begin(State, last.this) # last.ret

\* ---- C7: a list copy-constructed or copy-assigned from another shares no
\* node with it, and PushFront, PopFront, InsertAfter, EraseAfter and Clear
\* on either of the two leave the other's elements and size unchanged
CopyIsIndependent ==
    [][/\ (/\ last'.op \in {"copy constructor", "operator="}
           /\ ~last'.threw
           /\ last'.this # last'.other) =>
              /\ Reachable(State', last'.this)
                    \cap Reachable(State', last'.other) = {}
              /\ Elems(State', last'.this) = Elems(State, last'.other)
              /\ Elems(State', last'.other) = Elems(State, last'.other)
              /\ GetSize(State', last'.this) = GetSize(State, last'.other)
       /\ last'.op \in Mutators =>
              \A c \in copied : \A y \in c :
                  (last'.this \in c /\ y # last'.this) =>
                      /\ Chain(State', y) = Chain(State, y)
                      /\ Elems(State', y) = Elems(State, y)
                      /\ GetSize(State', y) = GetSize(State, y)]_vars

CopyIsIndependentWitness ==
    /\ last.op = "PopFront"
    /\ last.deletes = 1
    /\ \E c \in copied : \E y \in c :
          /\ last.this \in c
          /\ y # last.this
          /\ GetSize(State, y) >= 1
          /\ GetSize(State, last.this) >= 1

\* ---- C8: swap(A, B), member or free function, leaves A with B's former
\* elements and size and B with A's, allocates and frees no node and keeps
\* every node and its value: an iterator to an element of A refers to the
\* same element, now in B
SwapExchangesChains ==
    [][last'.op \in {"swap", "::swap"} =>
        LET A == last'.this
            B == last'.other
        IN /\ Chain(State', A) = Chain(State, B)
           /\ Chain(State', B) = Chain(State, A)
           /\ Elems(State', A) = Elems(State, B)
           /\ Elems(State', B) = Elems(State, A)
           /\ GetSize(State', A) = GetSize(State, B)
           /\ GetSize(State', B) = GetSize(State, A)
           /\ last'.news = 0
           /\ last'.deletes = 0
           /\ allocated' = allocated
           /\ \A it \in Reachable(State, A) :
                 /\ it \in Reachable(State', B)
                 /\ Deref(State', it) = Deref(State, it)
                 /\ Incr(State', it) = Incr(State, it)]_vars

SwapExchangesChainsWitness ==
    /\ last.op \in {"swap", "::swap"}
    /\ last.this # last.other
    /\ GetSize(State, last.this) = 2
    /\ GetSize(State, last.other) = 1

\* ---- C9: when the allocation of PushFront or InsertAfter fails, the call
\* throws and the chain, the values and the size are as before the call
FailedAllocationChangesNothing ==
    [][/\ last'.op = "PushFront" =>
              \A v \in Values :
                  CallPushFront(last'.this, v, nullptr) =>
                      /\ last'.threw
                      /\ UNCHANGED <<next_node, value, allocated, size_>>
       /\ last'.op = "InsertAfter" =>
              \A pos \in Positions(State, last'.this), v \in Values :
                  CallInsertAfter(last'.this, pos, v, nullptr) =>
                      /\ last'.threw
                      /\ UNCHANGED <<next_node, value, allocated, size_>>]_vars

FailedAllocationChangesNothingWitness ==
    /\ last.op \in {"PushFront", "InsertAfter"}
    /\ last.threw
    /\ GetSize(State, last.this) >= 1
    /\ allocated # Nodes

\* ---- C10: when an allocation fails while rhs is copy-assigned to a list,
\* after 0 to n-1 of the n elements of rhs were copied, the target's
\* elements and size are as before and rhs is unchanged
FailedAssignmentChangesNothing ==
    [][last'.op = "operator=" =>
        LET l == last'.this
            rhs == last'.other
        IN \A allocs \in AllocPlans(State, MaxNodes) :
               (/\ l # rhs
                /\ Len(allocs) < Len(Chain(State, rhs))
                /\ CallCopyAssignment(l, rhs, allocs)) =>
                   /\ last'.threw
                   /\ last'.news = Len(allocs)
                   /\ last'.deletes = Len(allocs)
                   /\ allocated' = allocated
                   /\ \A x \in {l, rhs} :
                         /\ Chain(State', x) = Chain(State, x)
                         /\ Elems(State', x) = Elems(State, x)
                         /\ GetSize(State', x) = GetSize(State, x)]_vars

FailedAssignmentChangesNothingWitness ==
    /\ last.op = "operator="
    /\ last.threw
    /\ last.news >= 1
    /\ last.deletes = last.news
    /\ GetSize(State, last.other) >= 2

\* the elements of a and b agree position by position and in number
SameElements(a, b) ==
    /\ Len(a) = Len(b)
    /\ \A i \in 1 .. Len(a) : a[i] = b[i]

\* a precedes b lexicographically: a is smaller at the first position where
\* they differ, or a is a proper prefix of b
LexPrecedes(a, b) ==
    \/ /\ Len(a) < Len(b)
       /\ \A i \in 1 .. Len(a) : a[i] = b[i]
    \/ \E i \in 1 .. Len(a) :
          /\ i <= Len(b)
          /\ a[i] < b[i]
          /\ \A j \in 1 .. i - 1 : a[j] = b[j]

\* ---- C11: A == B yields true iff GetSize() is the same for both lists and
\* their i-th elements in iteration order are equal for every i; A != B
\* yields the negation
EqualIffSameSizeAndElements ==
    LET A == last.this
        B == last.other
        same == /\ GetSize(State, A) = GetSize(State, B)
                /\ \A i \in 1 .. GetSize(State, A) :
                       Elems(State, A)[i] = Elems(State, B)[i]
    IN /\ last.op = "operator==" => last.ret = same
       /\ last.op = "operator!=" => last.ret = ~same

EqualIffSameSizeAndElementsWitness ==
    /\ last.op = "operator=="
    /\ last.this # last.other
    /\ GetSize(State, last.this) = 1
    /\ GetSize(State, last.other) = 1
    /\ last.ret = FALSE

\* ---- C12: A < B yields true iff A precedes B lexicographically in
\* iteration order; A > B is B < A, A <= B is (A < B or A == B) and A >= B
\* is (A > B or A == B)
OrderingIsLexicographic ==
    LET A == Elems(State, last.this)
        B == Elems(State, last.other)
    IN /\ last.op = "operator<" => last.ret = LexPrecedes(A, B)
       /\ last.op = "operator>" => last.ret = LexPrecedes(B, A)
       /\ last.op = "operator<=" =>
              last.ret = (LexPrecedes(A, B) \/ SameElements(A, B))
       /\ last.op = "operator>=" =>
              last.ret = (LexPrecedes(B, A) \/ SameElements(A, B))

OrderingIsLexicographicWitness ==
    /\ last.op = "operator<"
    /\ last.ret = TRUE
    /\ GetSize(State, last.this) = 1
    /\ GetSize(State, last.other) = 2
    /\ Elems(State, last.this)[1] = Elems(State, last.other)[1]

\* the heap after l.PushFront(vals[1]), ..., l.PushFront(vals[n]), the i-th
\* node placed at allocs[i]
RECURSIVE PushAll(_, _, _, _)
PushAll(s, l, vals, allocs) ==
    IF vals = <<>>
    THEN s
    ELSE PushAll(PushFront(s, l, Head(vals), Head(allocs)).st, l,
                 Tail(vals), Tail(allocs))

\* ---- C13: constructing a list from the literal sequence a1, ..., an
\* (n >= 0), all allocations succeeding, yields iteration order a1, ..., an
\* and size n, the same elements and size as PushFront(an), ...,
\* PushFront(a1) on an empty list
LiteralConstructionOrder ==
    [][(last'.op = "initializer_list constructor" /\ ~last'.threw) =>
        LET l == last'.this
            n == last'.news
            \* the nodes the call allocated, in any order
            orders == AllocSeqs(allocated' \ allocated, n)
        IN \A values \in [1 .. n -> Values] :
               \A allocs \in orders :
                   (/\ Len(allocs) = Len(values)
                    /\ CallInitListConstructor(l, values, allocs)) =>
                       LET p == PushAll(State, l, Reverse(values), allocs)
                       IN /\ ~last'.threw
                          /\ Elems(State', l) = values
                          /\ GetSize(State', l) = Len(values)
                          /\ Elems(State', l) = Elems(p, l)
                          /\ GetSize(State', l) = GetSize(p, l)]_vars

LiteralConstructionOrderWitness ==
    /\ last.op = "initializer_list constructor"
    /\ ~last.threw
    /\ GetSize(State, last.this) = 2
    /\ Elems(State, last.this) = <<1, 2>>
    /\ last.news = 2

\* ---- C14: self-assignment L = L leaves L unchanged in every list state:
\* same elements, same size, same nodes, and no node is allocated or freed
SelfAssignmentChangesNothing ==
    [][(last'.op = "operator=" /\ last'.this = last'.other) =>
        LET L == last'.this
        IN /\ ~last'.threw
           /\ Chain(State', L) = Chain(State, L)
           /\ Elems(State', L) = Elems(State, L)
           /\ GetSize(State', L) = GetSize(State, L)
           /\ last'.news = 0
           /\ last'.deletes = 0
           /\ UNCHANGED <<next_node, value, allocated, size_>>]_vars

SelfAssignmentChangesNothingWitness ==
    /\ last.op = "operator="
    /\ last.this = last.other
    /\ GetSize(State, last.this) = 2
    /\ allocated # Nodes

\* ---- C15: on an empty list PopFront() and EraseAfter(before_begin()) do
\* nothing: the list stays empty with size 0 (the count does not wrap), no
\* node is freed, and EraseAfter returns end()
EmptyListRemovalIsNoOp ==
    [][(last'.op \in {"PopFront", "EraseAfter"}
           /\ IsEmpty(State, last'.this)) =>
        LET l == last'.this
        IN /\ IsEmpty(State', l)
           /\ GetSize(State', l) = 0
           /\ last'.deletes = 0
           /\ UNCHANGED <<next_node, value, allocated, size_>>
           /\ CallEraseAfter(l, before_begin(l)) => last'.ret = end]_vars

EmptyListRemovalIsNoOpWitness ==
    /\ last.op = "EraseAfter"
    /\ last.deletes = 0
    /\ last.ret = end
    /\ IsEmpty(State, last.this)
    /\ GetSize(State, last.this) = 0
    /\ allocated # {}

\* ---- C16: EraseAfter(pos) on a non-empty list with pos at the last
\* element is stopped by an assertion before the null successor is
\* dereferenced, any node is destroyed or the size is decremented
EraseAfterLastStopsBeforeDereference ==
    [][\A l \in constructed : \A pos \in Reachable(State, l) :
          (/\ Incr(State, pos) = end
           /\ \E killed \in BOOLEAN : \E g \in NodeRefs \cup {nullptr} :
                  CallEraseAfterNoSuccessor(l, pos, killed, g)) =>
              /\ ~last'.null_deref
              /\ ~last'.signal
              /\ last'.deletes = 0
              /\ GetSize(State', l) = GetSize(State, l)
              /\ UNCHANGED <<next_node, value, allocated, size_>>]_vars

\* ---- C17: over any run of calls, failed allocations included, no node is
\* leaked, freed twice or freed while a live list still reaches it: after
\* every call each delete was of an allocated node, the allocated nodes are
\* exactly those the live lists reach, no node is in two lists, the
\* temporaries and the destroyed lists hold none, and once every list is
\* destroyed no node is allocated
NoLeakNoDoubleFree ==
    /\ last.bad_deletes = 0
    /\ allocated = UNION {Reachable(State, l) : l \in constructed}
    /\ \A l, m \in constructed :
          l # m => Reachable(State, l) \cap Reachable(State, m) = {}
    /\ \A l \in AllLists \ constructed :
          IsEmpty(State, l) /\ GetSize(State, l) = 0
    /\ constructed = {} => allocated = {}

NoLeakNoDoubleFreeWitness ==
    /\ last.op \in {"initializer_list constructor", "copy constructor",
                     "operator="}
    /\ last.threw
    /\ last.news >= 1
    /\ last.deletes = last.news
    /\ allocated # {}

\* ---- C18: PushFront(v) followed by PopFront() on an otherwise empty list
\* restores the empty state: GetSize() is 0, IsEmpty() holds, begin() equals
\* end() and the pushed node has been freed
PushThenPopRestoresEmpty ==
    [][(/\ last.op = "PushFront"
        /\ ~last.threw
        /\ last'.op = "PopFront"
        /\ last'.this = last.this) =>
           LET l == last.this
               n == begin(State, l)
           IN /\ GetSize(State, l) = 1
              /\ GetSize(State', l) = 0
              /\ IsEmpty(State', l)
              /\ begin(State', l) = end
              /\ Elems(State', l) = <<>>
              /\ n \in allocated
              /\ allocated' = allocated \ {n}
              /\ last'.deletes = 1]_vars

PushThenPopRestoresEmptyWitness ==
    /\ last.op = "PopFront"
    /\ last.deletes = 1
    /\ IsEmpty(State, last.this)
    /\ GetSize(State, last.this) = 0
    /\ allocated # {}

\* ---- C19: on every list state, the empty list included, InsertAfter at
\* before_begin() gives the same elements and size as PushFront of the same
\* value, and EraseAfter at before_begin() the same elements and size as
\* PopFront
FrontOpsCoincide ==
    [][LET l == last'.this
           bb == before_begin(l)
       IN /\ last'.op = "InsertAfter" =>
                 \A v \in Values : \A n \in AllocOutcomes(State) :
                     CallInsertAfter(l, bb, v, n) =>
                         LET p == PushFront(State, l, v, n)
                         IN /\ last'.threw = p.threw
                            /\ Chain(State', l) = Chain(p.st, l)
                            /\ Elems(State', l) = Elems(p.st, l)
                            /\ GetSize(State', l) = GetSize(p.st, l)
          /\ last'.op = "PushFront" =>
                 \A v \in Values : \A n \in AllocOutcomes(State) :
                     CallPushFront(l, v, n) =>
                         LET r == InsertAfter(State, l, bb, v, n)
                         IN /\ last'.threw = r.threw
                            /\ Elems(State', l) = Elems(r.st, l)
                            /\ GetSize(State', l) = GetSize(r.st, l)
          /\ last'.op = "EraseAfter" =>
                 (CallEraseAfter(l, bb) =>
                     LET p == PopFront(State, l)
                     IN /\ Chain(State', l) = Chain(p, l)
                        /\ Elems(State', l) = Elems(p, l)
                        /\ GetSize(State', l) = GetSize(p, l))
          /\ last'.op = "PopFront" =>
                 LET r == EraseAfter(State, l, bb)
                 IN /\ Elems(State', l) = Elems(r.st, l)
                    /\ GetSize(State', l) = GetSize(r.st, l)]_vars

FrontOpsCoincideWitness ==
    /\ last.op = "InsertAfter"
    /\ ~last.threw
    /\ last.ret = begin(State, last.this)
    /\ GetSize(State, last.this) = 2
    /\ Elems(State, last.this)[1] # Elems(State, last.this)[2]

\* an iterator to node x before the call is valid after it: x is still
\* allocated, holds the same value and is an element of the same list
StaysValid(x) ==
    /\ x \in allocated'
    /\ Deref(State', x) = Deref(State, x)
    /\ \A m \in Lists :
          x \in Reachable(State, m) => x \in Reachable(State', m)

\* ---- C20: an iterator to element x stays valid, on x and with x's value,
\* across every PushFront and InsertAfter and every PopFront and EraseAfter
\* that removes another node; a call frees x only by removing x itself, by
\* Clear, or by destroying the list that owns x (operator= destroys
\* copy_value, which owns the target's former nodes after the swap)
IteratorsStayValid ==
    [][\A x \in allocated :
          LET l == last'.this
          IN /\ last'.op \in {"PushFront", "InsertAfter"} => StaysValid(x)
             /\ last'.op = "PopFront" =>
                    IF x = begin(State, l)
                    THEN x \notin allocated'
                    ELSE StaysValid(x)
             /\ last'.op = "EraseAfter" =>
                    \A pos \in Positions(State, l) :
                        CallEraseAfter(l, pos) =>
                            IF x = Incr(State, pos)
                            THEN x \notin allocated'
                            ELSE StaysValid(x)
             /\ x \notin allocated' =>
                    \/ /\ last'.op = "PopFront"
                       /\ x = begin(State, l)
                    \/ /\ last'.op = "EraseAfter"
                       /\ \E pos \in Positions(State, l) :
                             CallEraseAfter(l, pos) /\ x = Incr(State, pos)
                    \/ /\ last'.op \in {"Clear", "~SingleLinkedList",
                                         "operator="}
                       /\ x \in Reachable(State, l)]_vars

IteratorsStayValidWitness ==
    /\ last.op = "EraseAfter"
    /\ last.deletes = 1
    /\ last.ret = end
    /\ GetSize(State, last.this) = 2
====
